---- MODULE Spec2Model ----
(***************************************************************************)
(* Model of the two STIV scripts of RiverProjectionMapping:                *)
(*   river_speed_camera.py  - the streaming loop (main and its __main__    *)
(*                            exception handlers), with the YOLO scale     *)
(*                            calibration;                                 *)
(*   baseline_stiv.py       - the batch generate_sti.                      *)
(* One behaviour is one run of one of the two scripts.  The frame source,  *)
(* the detector and the interpreter's interrupt are the environment.       *)
(***************************************************************************)
EXTENDS Integers, Sequences, FiniteSets, TLC

(* ---- bounds of the model ---- *)
\* cap.read() is attempted at most MaxReads times in one run
MaxReads == 152
\* cap.read() returns ret == False at most MaxFailures times in one run
MaxFailures == 2
\* a box coordinate (x1, x2) is one of 0..MaxX
MaxX == 1
\* the detector returns at most MaxBoxes boxes for one frame
MaxBoxes == 1
\* the batch script's --max-frames is one of 0..MaxBatchFrames
MaxBatchFrames == 3
\* a calibration value (width, distance, pixel width) is one of -1..MaxCal
MaxCal == 2
\* a coordinate of a line endpoint is one of 0..MaxCoord
MaxCoord == 2
\* the gradient images given to the analysis have NPix pixels
NPix == 3

(* ---- program constants ---- *)
max_frames == 150
recalibration_interval == 5
target_class == 2
other_class == 0

\* the value of a name that is not bound yet / Python's None
None == [none |-> TRUE]

(* ---- numbers: non-negative rationals n/d, extended with the IEEE values
        the numpy division produces for a zero divisor ---- *)
RECURSIVE Gcd(_, _)
Gcd(a, b) == IF b = 0 THEN a ELSE Gcd(b, a % b)

Rat(n, d) == LET g == Gcd(n, d) IN [n |-> n \div g, d |-> d \div g]

Inf == [n |-> 1, d |-> 0]
NaN == [n |-> 0, d |-> 0]

RatMul(a, b) == Rat(a.n * b.n, a.d * b.d)

NegInf == [n |-> -1, d |-> 0]

\* a / b of two floats, b a numpy scalar: x/0 is +-inf, 0/0 is nan
RatDiv(a, b) ==
    IF b.n = 0
    THEN (IF a.n = 0 THEN NaN ELSE IF a.n > 0 THEN Inf ELSE NegInf)
    ELSE IF b.n > 0 THEN Rat(a.n * b.d, a.d * b.n)
    ELSE Rat(-(a.n * b.d), a.d * (-b.n))

\* the exception Python raises for a float divided by the float 0.0
ZeroDivisionError == [error |-> "float division by zero"]

IsError(x) == "error" \in DOMAIN x

\* a / b of two Python floats
PyDiv(a, b) == IF b.n = 0 THEN ZeroDivisionError ELSE RatDiv(a, b)

IsFinitePositive(x) == x # None /\ x.n > 0 /\ x.d > 0

(* ---- configuration of river_speed_camera.py ---- *)
P_known == Rat(200, 1)
D_known == Rat(10, 1)
W_real == Rat(18, 10)
target_width == Rat(18, 10)
initial_spatial_res == Rat(1, 100)

calculate_focal_length_factor(known_width_m, known_dist_m, pixel_width_px) ==
    PyDiv(RatMul(pixel_width_px, known_dist_m), known_width_m)

(* ---- the detector's answer for one frame: the boxes in scan order ---- *)
Box == [cls : {target_class, other_class}, x1 : 0..MaxX, x2 : 0..MaxX]

\* xyxy boxes: x1 is the left edge, x2 the right edge
Boxes == {b \in Box : b.x1 <= b.x2}

RECURSIVE SeqsUpTo(_, _)
SeqsUpTo(S, k) ==
    IF k = 0 THEN {<<>>}
    ELSE LET shorter == SeqsUpTo(S, k - 1)
         IN  shorter \cup {Append(s, x) : s \in {t \in shorter : Len(t) = k - 1}, x \in S}

YoloResults == SeqsUpTo(Boxes, MaxBoxes)

\* the width of the first box of the wanted class, None when there is none
RECURSIVE FirstWidth(_, _)
FirstWidth(boxes, class_id) ==
    IF boxes = <<>> THEN None
    ELSE IF Head(boxes).cls = class_id
         THEN Rat(Head(boxes).x2 - Head(boxes).x1, 1)
         ELSE FirstWidth(Tail(boxes), class_id)

\* the width of the first box, whatever its class
FirstWidthAnyClass(boxes) ==
    IF boxes = <<>> THEN None ELSE Rat(Head(boxes).x2 - Head(boxes).x1, 1)

\* estimate_resolution_from_yolo without the class test of line 41
estimate_resolution_any_class(results, target_class_id, real_width_m, focal_f) ==
    LET detected_width_px == FirstWidthAnyClass(results)
    IN  IF detected_width_px = None
        THEN <<None, None>>
        ELSE <<RatDiv(RatMul(real_width_m, focal_f), detected_width_px),
               RatDiv(real_width_m, detected_width_px)>>

\* returns <<distance_m, spatial_res_m_px>>
estimate_resolution_from_yolo(results, target_class_id, real_width_m, focal_f) ==
    LET detected_width_px == FirstWidth(results, target_class_id)
    IN  IF detected_width_px = None
        THEN <<None, None>>
        ELSE <<RatDiv(RatMul(real_width_m, focal_f), detected_width_px),
               RatDiv(real_width_m, detected_width_px)>>

\* main, lines 140-141: a detection replaces the scale, no detection keeps it
UpdateSpatialRes(cur, new_res) == IF new_res # None THEN new_res ELSE cur

(* ---- output lines ---- *)
READY == "READY"
VelocityLine == "<float>"
STOPPED == "STOPPED"
ErrOpen == "ERROR: Cannot open camera"
ErrRead == "ERROR: Cannot read frame"
ErrorLine(e) == "ERROR: " \o e

Count(s, x) == Cardinality({i \in 1..Len(s) : s[i] = x})

VARIABLES
    script,               \* which script this run executes: "stream" or "batch"
    pc,                   \* position of the run in the script
    cap,                  \* the VideoCapture: "unset", "closed", "open", "released"
    stdout,               \* lines printed to standard output
    stderr,               \* lines printed to the error channel
    sti_list,             \* rows of the space-time image being collected (frame ids)
    frame_count,          \* rows collected in the current window
    frame,                \* the frame returned by the last cap.read()
    current_spatial_res,  \* the module global scale [m/px]
    cfg_max_frames,       \* batch: cfg.max_frames
    frame_index,          \* history: frames read since the session started
    last_yolo_frame,      \* history: id of the last frame given to the detector
    target_found,         \* history: the detector ran on the current frame and saw a target-class box
    windows_full,         \* history: windows for which max_frames frames were read
    analysed,             \* history: ids of the rows handed to the analysis
    exit_cause,           \* history: how the run ended
    calc                  \* a function called on its own: its arguments and its result

vars == <<script, pc, cap, stdout, stderr, sti_list, frame_count, frame,
          current_spatial_res, cfg_max_frames, frame_index, last_yolo_frame,
          target_found, windows_full, analysed, exit_cause, calc>>

history == <<frame_index, last_yolo_frame, target_found, windows_full, analysed>>

NumReadFailures == Count(stderr, ErrRead)
NumReads == frame_index + NumReadFailures

Init ==
    /\ script \in {"stream", "batch"}
    /\ pc = "start"
    /\ cap = "unset"
    /\ stdout = <<>>
    /\ stderr = <<>>
    /\ sti_list = <<>>
    /\ frame_count = 0
    /\ frame = None
    /\ current_spatial_res = initial_spatial_res
    /\ cfg_max_frames \in IF script = "batch" THEN 0..MaxBatchFrames ELSE {max_frames}
    /\ frame_index = 0
    /\ last_yolo_frame = -1
    /\ target_found = FALSE
    /\ windows_full = 0
    /\ analysed = {}
    /\ exit_cause = "none"
    /\ calc = None

(* ---- river_speed_camera.py: __main__ handlers ---- *)
\* a handler that prints STOPPED with a plain print()
KeyboardInterruptHandlerStdout(out, err) == [out |-> Append(out, STOPPED), err |-> err]

\* except KeyboardInterrupt: print("STOPPED", file=sys.stderr)
KeyboardInterruptHandler(out, err) == [out |-> out, err |-> Append(err, STOPPED)]

\* except Exception as e: print(f"ERROR: {e}", file=sys.stderr)
ExceptionHandler(out, err, e) == [out |-> out, err |-> Append(err, ErrorLine(e))]

\* an exception e leaves main from the current position
Raise(e) ==
    LET h == ExceptionHandler(stdout, stderr, e)
    IN  /\ stdout' = h.out
        /\ stderr' = h.err
        /\ pc' = "exited"
        /\ exit_cause' = "Exception"
        /\ UNCHANGED <<script, cap, sti_list, frame_count, frame,
                       current_spatial_res, cfg_max_frames, calc, history>>

\* Ctrl-C while main runs
Interrupt ==
    /\ script = "stream"
    /\ pc \notin {"exited"}
    /\ LET h == KeyboardInterruptHandler(stdout, stderr)
       IN  /\ stdout' = h.out
           /\ stderr' = h.err
    /\ pc' = "exited"
    /\ exit_cause' = "KeyboardInterrupt"
    /\ UNCHANGED <<script, cap, sti_list, frame_count, frame,
                   current_spatial_res, cfg_max_frames, calc, history>>

(* ---- river_speed_camera.py: main ---- *)
\* lines 107-111: the focal factor and the YOLO model
F_factor == calculate_focal_length_factor(W_real, D_known, P_known)

LoadModel ==
    /\ script = "stream" /\ pc = "start"
    /\ pc' = "open"
    /\ UNCHANGED <<script, cap, stdout, stderr, sti_list, frame_count, frame,
                   current_spatial_res, cfg_max_frames, calc, history, exit_cause>>

LoadModelFails ==
    /\ script = "stream" /\ pc = "start"
    /\ Raise("model")

\* what main prints once the capture is open
AnnounceReady(out) == Append(out, READY)

\* main announcing READY before it tests cap.isOpened()
OpenCameraReadyFirst ==
    /\ script = "stream" /\ pc = "open"
    /\ stdout' = AnnounceReady(stdout)
    /\ \E opened \in BOOLEAN :
         IF opened
         THEN /\ cap' = "open"
              /\ pc' = "window"
              /\ UNCHANGED <<stderr, exit_cause>>
         ELSE /\ cap' = "closed"
              /\ stderr' = Append(stderr, ErrOpen)
              /\ pc' = "exited"
              /\ exit_cause' = "return"
    /\ UNCHANGED <<script, sti_list, frame_count, frame,
                   current_spatial_res, cfg_max_frames, calc, history>>

\* lines 114-119
OpenCamera ==
    /\ script = "stream" /\ pc = "open"
    /\ \E opened \in BOOLEAN :
         IF opened
         THEN /\ cap' = "open"
              /\ stdout' = AnnounceReady(stdout)
              /\ pc' = "window"
              /\ UNCHANGED <<stderr, exit_cause>>
         ELSE /\ cap' = "closed"
              /\ stderr' = Append(stderr, ErrOpen)
              /\ pc' = "exited"
              /\ exit_cause' = "return"
              /\ UNCHANGED stdout
    /\ UNCHANGED <<script, sti_list, frame_count, frame,
                   current_spatial_res, cfg_max_frames, calc, history>>

\* a window that keeps the rows of the window before it
KeptBuffer(old) == old

\* the buffer a window starts with
FreshBuffer(old) == <<>>

\* lines 122-124 and the first test of the inner loop
StartWindow ==
    /\ script = "stream" /\ pc = "window"
    /\ sti_list' = FreshBuffer(sti_list)
    /\ frame_count' = 0
    /\ pc' = IF 0 < max_frames THEN "read" ELSE "after"
    /\ UNCHANGED <<script, cap, stdout, stderr, frame, current_spatial_res,
                   cfg_max_frames, calc, history, exit_cause>>

\* line 135: does the detector run on the frame with this count?
RunsDetector(count) == count % recalibration_interval = 0

\* what cap.read() may return as ret
ReadOutcomes == IF NumReadFailures < MaxFailures THEN BOOLEAN ELSE {TRUE}

\* lines 128-131
ReadFrame ==
    /\ script = "stream" /\ pc = "read"
    /\ NumReads < MaxReads
    /\ \E ret \in ReadOutcomes :
         IF ret
         THEN /\ frame' = [id |-> frame_index]
              /\ frame_index' = frame_index + 1
              /\ pc' = IF RunsDetector(frame_count) THEN "detect" ELSE "sample"
              /\ UNCHANGED stderr
         ELSE /\ frame' = None
              /\ stderr' = Append(stderr, ErrRead)
              /\ pc' = "after"
              /\ UNCHANGED frame_index
    /\ target_found' = FALSE
    /\ UNCHANGED <<script, cap, stdout, sti_list, frame_count,
                   current_spatial_res, cfg_max_frames, calc, last_yolo_frame,
                   windows_full, analysed, exit_cause>>

HasTargetBox(results) == \E i \in 1..Len(results) : results[i].cls = target_class

\* lines 135-141
Detect ==
    /\ script = "stream" /\ pc = "detect"
    /\ \E results \in YoloResults :
         LET r == estimate_resolution_from_yolo(results, target_class, target_width, F_factor)
         IN  /\ current_spatial_res' = UpdateSpatialRes(current_spatial_res, r[2])
             /\ target_found' = HasTargetBox(results)
    /\ last_yolo_frame' = frame.id
    /\ pc' = "sample"
    /\ UNCHANGED <<script, cap, stdout, stderr, sti_list, frame_count, frame,
                   cfg_max_frames, calc, frame_index, windows_full, analysed, exit_cause>>

DetectFails ==
    /\ script = "stream" /\ pc = "detect"
    /\ last_yolo_frame' = frame.id
    /\ target_found' = FALSE
    /\ LET h == ExceptionHandler(stdout, stderr, "yolo")
       IN  /\ stdout' = h.out
           /\ stderr' = h.err
    /\ pc' = "exited"
    /\ exit_cause' = "Exception"
    /\ UNCHANGED <<script, cap, sti_list, frame_count, frame,
                   current_spatial_res, cfg_max_frames, calc, frame_index,
                   windows_full, analysed>>

\* lines 145-151 and the loop test of line 127
Sample ==
    /\ script = "stream" /\ pc = "sample"
    /\ sti_list' = Append(sti_list, frame.id)
    /\ frame_count' = frame_count + 1
    /\ pc' = IF frame_count + 1 < max_frames THEN "read" ELSE "after"
    /\ windows_full' = IF frame_count + 1 = max_frames THEN windows_full + 1
                       ELSE windows_full
    /\ UNCHANGED <<script, cap, stdout, stderr, frame, current_spatial_res,
                   cfg_max_frames, calc, frame_index, last_yolo_frame, target_found,
                   analysed, exit_cause>>

SampleFails ==
    /\ script = "stream" /\ pc = "sample"
    /\ Raise("cvtColor")

\* line 153: the outer loop ends only when the window is empty
LoopEnds(count) == count = 0

\* lines 153-179
Analyse ==
    /\ script = "stream" /\ pc = "after"
    /\ IF LoopEnds(frame_count)
       THEN /\ pc' = "release"
            /\ UNCHANGED <<stdout, analysed>>
       ELSE /\ analysed' = analysed \cup {sti_list[i] : i \in 1..Len(sti_list)}
            /\ stdout' = Append(stdout, VelocityLine)
            /\ pc' = "window"
    /\ UNCHANGED <<script, cap, stderr, sti_list, frame_count, frame,
                   current_spatial_res, cfg_max_frames, calc, frame_index,
                   last_yolo_frame, target_found, windows_full, exit_cause>>

AnalyseFails ==
    /\ script = "stream" /\ pc = "after"
    /\ ~LoopEnds(frame_count)
    /\ Raise("analysis")

\* line 181
Release ==
    /\ script = "stream" /\ pc = "release"
    /\ cap' = "released"
    /\ pc' = "exited"
    /\ exit_cause' = "return"
    /\ UNCHANGED <<script, stdout, stderr, sti_list, frame_count, frame,
                   current_spatial_res, cfg_max_frames, calc, history>>

StreamNext ==
    \/ LoadModel
    \/ LoadModelFails
    \/ OpenCamera
    \/ StartWindow
    \/ ReadFrame
    \/ Detect
    \/ DetectFails
    \/ Sample
    \/ SampleFails
    \/ Analyse
    \/ AnalyseFails
    \/ Release
    \/ Interrupt

(* ---- baseline_stiv.py: generate_sti ---- *)
CameraInformation ==
    <<"=== Camera Information ===", "Camera ID", "Resolution", "FPS", "Backend",
      "=========================">>

\* an exception nobody catches ends the batch script with a traceback
BatchRaise(e) ==
    /\ stderr' = Append(stderr, "Traceback: " \o e)
    /\ pc' = "exited"
    /\ exit_cause' = "Exception"

\* lines 128-152: open the source, print the camera information, empty buffer
GenerateStiOpen ==
    /\ script = "batch" /\ pc = "start"
    /\ \E found \in BOOLEAN, opened \in BOOLEAN :
         IF ~found
         THEN /\ BatchRaise("IOError: Camera not found")
              /\ UNCHANGED <<cap, stdout>>
         ELSE IF ~opened
         THEN /\ cap' = "closed"
              /\ BatchRaise("IOError: Cannot open video source")
              /\ UNCHANGED stdout
         ELSE /\ cap' = "open"
              /\ stdout' = stdout \o CameraInformation
              /\ pc' = IF 0 < cfg_max_frames THEN "b_read" ELSE "b_release"
              /\ UNCHANGED <<stderr, exit_cause>>
    /\ sti_list' = <<>>
    /\ frame_count' = 0
    /\ UNCHANGED <<script, frame, current_spatial_res, cfg_max_frames, calc, history>>

\* lines 157-159
GenerateStiRead ==
    /\ script = "batch" /\ pc = "b_read"
    /\ \E ret \in BOOLEAN :
         IF ret
         THEN /\ frame' = [id |-> frame_index]
              /\ frame_index' = frame_index + 1
              /\ pc' = "b_sample"
         ELSE /\ frame' = None
              /\ pc' = "b_release"
              /\ UNCHANGED frame_index
    /\ UNCHANGED <<script, cap, stdout, stderr, sti_list, frame_count,
                   current_spatial_res, cfg_max_frames, calc, last_yolo_frame,
                   target_found, windows_full, analysed, exit_cause>>

\* lines 161-169 and the loop test of line 156
GenerateStiSample ==
    /\ script = "batch" /\ pc = "b_sample"
    /\ sti_list' = Append(sti_list, frame.id)
    /\ frame_count' = frame_count + 1
    /\ pc' = IF frame_count + 1 < cfg_max_frames THEN "b_read" ELSE "b_release"
    /\ windows_full' = IF frame_count + 1 = cfg_max_frames THEN windows_full + 1
                       ELSE windows_full
    /\ UNCHANGED <<script, cap, stdout, stderr, frame, current_spatial_res,
                   cfg_max_frames, calc, frame_index, last_yolo_frame, target_found,
                   analysed, exit_cause>>

\* extract_line_pixels raises (cv2.remap / cv2.cvtColor reject the frame)
GenerateStiSampleFails ==
    /\ script = "batch" /\ pc = "b_sample"
    /\ BatchRaise("cv2.error")
    /\ UNCHANGED <<script, cap, stdout, sti_list, frame_count, frame,
                   current_spatial_res, cfg_max_frames, calc, history>>

\* lines 171-177
GenerateStiReturn ==
    /\ script = "batch" /\ pc = "b_release"
    /\ cap' = "released"
    /\ IF sti_list = <<>>
       THEN /\ BatchRaise("RuntimeError: No frames were read")
            /\ UNCHANGED analysed
       ELSE /\ analysed' = analysed \cup {sti_list[i] : i \in 1..Len(sti_list)}
            /\ pc' = "b_done"
            /\ UNCHANGED <<stderr, exit_cause>>
    /\ UNCHANGED <<script, stdout, sti_list, frame_count, frame,
                   current_spatial_res, cfg_max_frames, calc, frame_index,
                   last_yolo_frame, target_found, windows_full>>

BatchNext ==
    \/ GenerateStiOpen
    \/ GenerateStiRead
    \/ GenerateStiSample
    \/ GenerateStiSampleFails
    \/ GenerateStiReturn

Next == StreamNext \/ BatchNext

Spec == Init /\ [][Next]_vars

(* ======================================================================= *)
(* The functions of the two scripts, each called on arguments of its own   *)
(* ======================================================================= *)
\* the variables of the two scripts, untouched while one function is studied
program == <<script, pc, cap, sti_list, frame_count, frame, current_spatial_res,
             cfg_max_frames, frame_index, last_yolo_frame, target_found,
             windows_full, analysed, exit_cause>>

ProgramAtStart(name) ==
    /\ script = name
    /\ pc = "start"
    /\ cap = "unset"
    /\ stdout = <<>>
    /\ stderr = <<>>
    /\ sti_list = <<>>
    /\ frame_count = 0
    /\ frame = None
    /\ current_spatial_res = initial_spatial_res
    /\ cfg_max_frames = max_frames
    /\ frame_index = 0
    /\ last_yolo_frame = -1
    /\ target_found = FALSE
    /\ windows_full = 0
    /\ analysed = {}
    /\ exit_cause = "none"

(* ---- river_speed_camera.py: the calibration at the start of main ---- *)
CalValues == {Rat(k, 1) : k \in -1..MaxCal}

\* a configuration: the three calibration settings of lines 71-73
FocalInit ==
    /\ ProgramAtStart("focal")
    /\ \E w \in CalValues, d \in CalValues, p \in CalValues :
         calc = [at |-> "start", W_real |-> w, D_known |-> d, P_known |-> p,
                 F_factor |-> None]

\* line 108; an exception reaches the handler of line 189
FocalCalibrate ==
    /\ script = "focal" /\ calc.at = "start"
    /\ LET f == calculate_focal_length_factor(calc.W_real, calc.D_known, calc.P_known)
       IN  /\ calc' = [calc EXCEPT !.F_factor = f,
                                   !.at = IF IsError(f) THEN "exited" ELSE "open"]
           /\ stderr' = IF IsError(f)
                        THEN ExceptionHandler(stdout, stderr, f.error).err
                        ELSE stderr
    /\ UNCHANGED <<program, stdout>>

\* lines 111-119 with a model that loads and a camera that opens
FocalReady ==
    /\ script = "focal" /\ calc.at = "open"
    /\ stdout' = AnnounceReady(stdout)
    /\ calc' = [calc EXCEPT !.at = "loop"]
    /\ UNCHANGED <<program, stderr>>

FocalNext == FocalCalibrate \/ FocalReady

SpecFocal == FocalInit /\ [][FocalNext]_vars

(* ---- baseline_stiv.py: extract_line_pixels, called as generate_sti does ---- *)
\* int(sqrt(n)) for n >= 0
ISqrt(n) == CHOOSE r \in 0..n : r * r <= n /\ n < (r + 1) * (r + 1)

Max(a, b) == IF a >= b THEN a ELSE b

\* generate_sti, lines 150-151: int(np.linalg.norm(start - end)), at least 1
LineLengthPx(start, end) ==
    LET dx == start[1] - end[1]
        dy == start[2] - end[2]
    IN  Max(ISqrt(dx * dx + dy * dy), 1)

\* np.linspace(a, b, num) for integers a, b >= 0: num evenly spaced values
Linspace(a, b, num) ==
    [i \in 1..num |-> IF num = 1 THEN Rat(a, 1)
                      ELSE Rat(a * (num - 1) + (i - 1) * (b - a), num - 1)]

\* cv2.remap with 1 x length maps: one interpolated pixel per map entry, a
\* pixel being the sequence of the frame's channel values at that point
Remap(channels, x_coords, y_coords) ==
    [i \in 1..Len(x_coords) |->
        [c \in 1..channels |-> [x |-> x_coords[i], y |-> y_coords[i], ch |-> c]]]

\* pixels.ndim: 2 for a single-channel result, 3 otherwise
Ndim(pixels, channels) == IF channels = 1 THEN 2 ELSE 3

\* cv2.cvtColor(pixels, cv2.COLOR_BGR2GRAY): one luma value per pixel
CvtColorGray(pixels) ==
    [i \in 1..Len(pixels) |-> <<[x |-> pixels[i][1].x, y |-> pixels[i][1].y, ch |-> 0]>>]

\* ndarray.flatten(): all values, row-major
RECURSIVE Flatten(_)
Flatten(pixels) ==
    IF pixels = <<>> THEN <<>> ELSE Head(pixels) \o Flatten(Tail(pixels))

extract_line_pixels(channels, start, end, length, force_gray) ==
    LET x_coords == Linspace(start[1], end[1], length)
        y_coords == Linspace(start[2], end[2], length)
        pixels == Remap(channels, x_coords, y_coords)
        out == IF force_gray /\ Ndim(pixels, channels) = 3
               THEN CvtColorGray(pixels) ELSE pixels
    IN  Flatten(out)

Coords == (0..MaxCoord) \X (0..MaxCoord)

\* frames are single-channel (gray) or three-channel (BGR) images
FrameChannels == {1, 3}

SamplerInit ==
    /\ ProgramAtStart("sampler")
    /\ \E s \in Coords, e \in Coords, g \in BOOLEAN, ch \in FrameChannels :
         calc = [at |-> "start", line_start |-> s, line_end |-> e, gray |-> g,
                 channels |-> ch, line_length_px |-> 0, line_data |-> <<>>]

\* generate_sti, lines 149-151
SamplerLength ==
    /\ script = "sampler" /\ calc.at = "start"
    /\ calc' = [calc EXCEPT !.line_length_px = LineLengthPx(calc.line_start, calc.line_end),
                            !.at = "frame"]
    /\ UNCHANGED <<program, stdout, stderr>>

\* generate_sti, lines 161-167, for one frame
SamplerExtract ==
    /\ script = "sampler" /\ calc.at = "frame"
    /\ calc' = [calc EXCEPT !.line_data = extract_line_pixels(calc.channels,
                                              calc.line_start, calc.line_end,
                                              calc.line_length_px, calc.gray),
                            !.at = "done"]
    /\ UNCHANGED <<program, stdout, stderr>>

SamplerNext == SamplerLength \/ SamplerExtract

SpecSampler == SamplerInit /\ [][SamplerNext]_vars

(* ---- the structure-tensor analysis of both scripts ---- *)
IsNaN(x) == x.d = 0 /\ x.n = 0
IsInf(x) == x.d = 0 /\ x.n # 0
Sign(k) == IF k > 0 THEN 1 ELSE IF k < 0 THEN -1 ELSE 0

\* IEEE product: nan absorbs, 0 * inf is nan, x * inf is +-inf
FMul(a, b) ==
    IF IsNaN(a) \/ IsNaN(b) THEN NaN
    ELSE IF IsInf(a) \/ IsInf(b)
         THEN (IF a.n = 0 \/ b.n = 0 THEN NaN
               ELSE IF Sign(a.n) * Sign(b.n) > 0 THEN Inf ELSE NegInf)
         ELSE RatMul(a, b)

\* sums, negation and comparison of finite values
RatAdd(a, b) == Rat(a.n * b.d + b.n * a.d, a.d * b.d)
RatNeg(a) == [n |-> -a.n, d |-> a.d]
RatGt(a, b) == a.n * b.d > b.n * a.d
Zero == Rat(0, 1)

RECURSIVE RatSum(_)
RatSum(xs) == IF xs = <<>> THEN Zero ELSE RatAdd(Head(xs), RatSum(Tail(xs)))

\* np.mean of a non-empty array
Mean(xs) == RatDiv(RatSum(xs), Rat(Len(xs), 1))

\* gaussian_filter(img, sigma) in its default 'reflect' mode, the truncated
\* Gaussian kernel being a positive, symmetric, normalised kernel: (1, 2, 1)/4
GaussianFilter(img) ==
    LET N == Len(img)
        at(i) == IF i < 1 THEN img[1] ELSE IF i > N THEN img[N] ELSE img[i]
    IN  [i \in 1..N |->
            RatDiv(RatAdd(at(i - 1), RatAdd(RatAdd(at(i), at(i)), at(i + 1))), Rat(4, 1))]

fps == Rat(30, 1)
degeneracy_threshold == Rat(1, 10)

\* river_speed_camera.main, lines 162-176; returns <<velocity_ms, avg_v_pix>>
PerPixelVelocity(Ix, It, spatial_res) ==
    LET Ixx == [i \in 1..Len(Ix) |-> RatMul(Ix[i], Ix[i])]
        Ixt == [i \in 1..Len(Ix) |-> RatMul(Ix[i], It[i])]
        Jxx == GaussianFilter(Ixx)
        Jxt == GaussianFilter(Ixt)
        valid_mask == [i \in 1..Len(Ix) |-> RatGt(Jxx[i], degeneracy_threshold)]
        v_pix == [i \in 1..Len(Ix) |->
                    IF valid_mask[i] THEN RatNeg(RatDiv(Jxt[i], Jxx[i])) ELSE Zero]
        avg_v_pix == Mean(v_pix)
    IN  <<FMul(avg_v_pix, FMul(spatial_res, fps)), avg_v_pix>>

\* baseline_stiv.calculate_velocity_structure_tensor, lines 199-211;
\* returns <<velocity_ms, v_pix>>
calculate_velocity_structure_tensor(Ix, It, fps_, spat_res) ==
    LET Ixx == [i \in 1..Len(Ix) |-> RatMul(Ix[i], Ix[i])]
        Ixt == [i \in 1..Len(Ix) |-> RatMul(Ix[i], It[i])]
        Jxx == GaussianFilter(Ixx)
        Jxt == GaussianFilter(Ixt)
        avg_Jxx == Mean(Jxx)
        avg_Jxt == Mean(Jxt)
        v_pix == IF avg_Jxx = Zero THEN Zero ELSE RatDiv(RatNeg(avg_Jxt), avg_Jxx)
    IN  <<FMul(v_pix, FMul(spat_res, fps_)), v_pix>>

\* the values of the Sobel derivatives at one pixel
GradX == {Rat(0, 1), Rat(1, 2), Rat(1, 1)}
GradT == {Rat(-1, 1), Rat(0, 1), Rat(1, 1)}

\* the scales the streaming loop can hold when a window is analysed
StreamSpatialRes ==
    {initial_spatial_res} \cup
    ({estimate_resolution_from_yolo(r, target_class, target_width, F_factor)[2] :
         r \in YoloResults} \ {None})

\* the batch script's --spatial-res (default 0.01)
BatchSpatialRes == {Rat(1, 100), Rat(1, 10)}

AnalysisInit ==
    /\ ProgramAtStart("analysis")
    /\ \E ix \in [1..NPix -> GradX], it \in [1..NPix -> GradT],
          mode \in {"per_pixel", "global"} :
         \E sr \in IF mode = "per_pixel" THEN StreamSpatialRes ELSE BatchSpatialRes :
            calc = [at |-> "start", mode |-> mode, Ix |-> ix, It |-> it,
                    spatial_res |-> sr, velocity_ms |-> None, v_pix |-> None]

\* the analysis of one window in the streaming loop
AnalysePerPixel ==
    /\ script = "analysis" /\ calc.at = "start" /\ calc.mode = "per_pixel"
    /\ LET r == PerPixelVelocity(calc.Ix, calc.It, calc.spatial_res)
       IN  calc' = [calc EXCEPT !.velocity_ms = r[1], !.v_pix = r[2], !.at = "done"]
    /\ UNCHANGED <<program, stdout, stderr>>

\* the analysis of the batch script
AnalyseGlobal ==
    /\ script = "analysis" /\ calc.at = "start" /\ calc.mode = "global"
    /\ LET r == calculate_velocity_structure_tensor(calc.Ix, calc.It, fps, calc.spatial_res)
       IN  calc' = [calc EXCEPT !.velocity_ms = r[1], !.v_pix = r[2], !.at = "done"]
    /\ UNCHANGED <<program, stdout, stderr>>

AnalysisNext == AnalysePerPixel \/ AnalyseGlobal

SpecAnalysis == AnalysisInit /\ [][AnalysisNext]_vars

(* ======================================================================= *)
(* Properties                                                              *)
(* ======================================================================= *)
Streaming == script = "stream"
NumVelocityLines == Count(stdout, VelocityLine)
WindowSize == IF Streaming THEN max_frames ELSE cfg_max_frames
Rows(s) == {s[i] : i \in 1..Len(s)}

\* C1: once a cap.read() of the streaming loop has failed, whatever the number
\* of rows already collected in the window, no velocity line is printed:
\* stdout never changes after a read failure.
C1_NoVelocityAfterReadFailure ==
    [][(Streaming /\ NumReadFailures > 0) => stdout' = stdout]_vars

\* C2: a read failure is terminal: after the first failed cap.read() no other
\* read is attempted, the error channel holds exactly one "Cannot read frame"
\* line, and the loop is left (next position: release or exit).
C2_ReadFailureTerminal ==
    [][(Streaming /\ NumReadFailures > 0) =>
          /\ NumReads' = NumReads
          /\ Count(stderr', ErrRead) = 1
          /\ pc' \in {"release", "exited"}]_vars

\* C3: the stdout of the streaming script is empty or READY followed by
\* velocity lines only; READY needs an opened source; when the source cannot
\* be opened the error line is on stderr and stdout stays empty.
C3_ReadyThenVelocities ==
    Streaming =>
       /\ \/ stdout = <<>>
          \/ /\ stdout[1] = READY
             /\ \A i \in 2..Len(stdout) : stdout[i] = VelocityLine
       /\ stdout # <<>> => cap \in {"open", "released"}
       /\ cap \in {"unset", "closed"} => stdout = <<>>
       /\ cap = "closed" => Count(stderr, ErrOpen) = 1

C3_Witness ==
    /\ Streaming
    /\ Len(stdout) >= 2
    /\ stdout[1] = READY
    /\ stdout[2] = VelocityLine

\* C4: whenever the streaming loop is about to read a frame, the number of
\* velocity lines printed equals the number of windows for which max_frames
\* frames were read.
C4_OneVelocityPerFullWindow ==
    (Streaming /\ pc = "read") => NumVelocityLines = windows_full

\* C5: the buffer never holds more than window_size rows (streaming and
\* batch), a row is only appended to a buffer that is not full, the buffer
\* holds exactly the rows of the current window, and in the streaming loop no
\* row under collection was part of an earlier window.
C5_BufferBounded ==
    /\ Len(sti_list) <= WindowSize
    /\ pc \in {"sample", "b_sample"} => Len(sti_list) < WindowSize
    /\ pc \in {"read", "detect", "sample", "after", "b_read", "b_sample", "b_release"}
          => Len(sti_list) = frame_count
    /\ (Streaming /\ pc \in {"read", "detect", "sample", "after"})
          => Rows(sti_list) \cap analysed = {}

C5_Witness ==
    /\ Streaming
    /\ windows_full >= 1
    /\ pc = "sample"
    /\ Len(sti_list) = 1
    /\ Cardinality(analysed) = max_frames

\* C6: a run that opened the frame source never ends with the source still
\* open: cap.release() has been called on every exit path.
C6_ReleasedOnEveryExit ==
    pc \in {"exited", "b_done"} => cap # "open"

\* C7: a KeyboardInterrupt in the streaming script prints nothing to stdout
\* (the window in flight is dropped, no later window is analysed) and leaves
\* exactly one STOPPED line, on stderr.
C7_InterruptAbandonsWindow ==
    [][exit_cause' = "KeyboardInterrupt" =>
          /\ stdout' = stdout
          /\ Count(stderr', STOPPED) = 1
          /\ Count(stdout', STOPPED) = 0]_vars

C7_Witness ==
    /\ exit_cause = "KeyboardInterrupt"
    /\ Len(stdout) >= 1
    /\ frame_count > 0
    /\ frame_count < max_frames

\* C8: the detector runs on a frame exactly when the frame's index, counted
\* over all frames read in the session, is a multiple of 5; two consecutive
\* detector runs are 5 frames apart.
C8_DetectorEveryFifthFrame ==
    [][(Streaming /\ frame_index' = frame_index + 1) =>
          /\ (pc' = "detect") <=> (frame_index % recalibration_interval = 0)
          /\ (pc' = "detect" /\ last_yolo_frame # -1)
                => frame_index - last_yolo_frame = recalibration_interval]_vars

\* C9: current_spatial_res changes only in a step in which the detector ran
\* on the current frame and found a box of the target class; a detector run
\* that returns without such a box goes on to sample the frame.
C9_ScaleChangesOnlyOnDetection ==
    [][/\ current_spatial_res' # current_spatial_res =>
             /\ pc = "detect"
             /\ last_yolo_frame' = frame.id
             /\ target_found'
       /\ (pc = "detect" /\ pc' # "exited" /\ ~target_found') =>
             /\ current_spatial_res' = current_spatial_res
             /\ pc' = "sample"]_vars

C9_Witness ==
    /\ Streaming
    /\ current_spatial_res # initial_spatial_res
    /\ pc = "sample"
    /\ last_yolo_frame = frame.id
    /\ ~target_found
    /\ NumVelocityLines >= 1

\* C10: current_spatial_res is a finite, strictly positive number in every
\* reachable state.
C10_ScalePositiveFinite == IsFinitePositive(current_spatial_res)

\* C14: the focal factor is pixel_width_ref * distance_ref / real_width_ref
\* when the three inputs are > 0; when one of them is <= 0 the computation
\* fails, before READY is printed; the factor is never zero or negative.
C14_FocalFactorValidated ==
    (script = "focal" /\ calc.at # "start") =>
        IF calc.W_real.n > 0 /\ calc.D_known.n > 0 /\ calc.P_known.n > 0
        THEN calc.F_factor = RatDiv(RatMul(calc.P_known, calc.D_known), calc.W_real)
        ELSE /\ IsError(calc.F_factor)
             /\ stdout = <<>>
             /\ calc.at = "exited"

\* C13: for every frame (one or several channels), every line segment and
\* every setting of the grayscale option, the sampler returns exactly
\* length_px samples, length_px being the truncated distance between the
\* endpoints, at least 1.
C13_SamplerReturnsLengthSamples ==
    (script = "sampler" /\ calc.at = "done") =>
        /\ calc.line_length_px >= 1
        /\ Len(calc.line_data) = calc.line_length_px

\* the structure tensor and the valid pixels of the gradients under analysis
TensorXX == GaussianFilter([i \in 1..NPix |-> RatMul(calc.Ix[i], calc.Ix[i])])
TensorXT == GaussianFilter([i \in 1..NPix |-> RatMul(calc.Ix[i], calc.It[i])])
ValidPixels == {i \in 1..NPix : RatGt(TensorXX[i], degeneracy_threshold)}

RECURSIVE SumOver(_, _)
SumOver(f, S) ==
    IF S = {} THEN Zero
    ELSE LET i == CHOOSE j \in S : TRUE IN RatAdd(f[i], SumOver(f, S \ {i}))

\* C11: in per-pixel mode the pixel velocity is the mean of -Jxt/Jxx over the
\* valid pixels (Jxx > 0.1) only: the other pixels add nothing to the sum and
\* nothing to the divisor.
C11_MeanOverValidPixels ==
    (script = "analysis" /\ calc.at = "done" /\ calc.mode = "per_pixel"
        /\ ValidPixels # {}) =>
        calc.v_pix =
            RatDiv(SumOver([i \in 1..NPix |-> RatNeg(RatDiv(TensorXT[i], TensorXX[i]))],
                           ValidPixels),
                   Rat(Cardinality(ValidPixels), 1))

\* C12: for gradients with Ix = 0 at every pixel (Jxx = 0 everywhere) both
\* modes give pixel velocity 0 and physical velocity 0.
C12_DegenerateGivesZero ==
    (script = "analysis" /\ calc.at = "done"
        /\ \A i \in 1..NPix : calc.Ix[i] = Zero) =>
        /\ calc.v_pix = Zero
        /\ calc.velocity_ms = Zero

====
